---- MODULE Spec2Model ----
(***************************************************************************)
(* Pulse Habits (src/habit-tracker/src/app/page.tsx): the habit store, the *)
(* streak calculators, the storage loader and the reminder evaluator.      *)
(*                                                                         *)
(* Representation.                                                         *)
(*   - A JavaScript Date is its epoch time in whole seconds.  The zone of  *)
(*     the browser is a fixed offset tzOffset (local = UTC + tzOffset).    *)
(*   - A date identifier "YYYY-MM-DD" is the number of its day since the   *)
(*     epoch; the zero-padded text sorts as the day numbers do.            *)
(*   - A name or a reminder time is the sequence of its characters, so     *)
(*     that trim, split, Number and the code-unit order of sort() are      *)
(*     computed and not assumed.                                           *)
(*   - emoji, color and createdAt are display-only and left out.           *)
(***************************************************************************)
EXTENDS Integers, Sequences, FiniteSets, TLC

VARIABLES
    habits,            \* useState<Habit[]>                      (line 176)
    selectedHabitId,   \* useState<string | null>                (line 177)
    name,              \* form field                             (line 178)
    goalPerWeek,       \* form field                             (line 180)
    reminderTime,      \* form field                             (line 181)
    alerts,            \* useState<ReminderAlert[]>              (line 182)
    reminderCacheRef,  \* useRef {date, keys}                    (line 184)
    storage,           \* localStorage[STORAGE_KEY]
    effectPending,     \* habits changed, the effects have not run yet
    now,               \* the clock: what new Date() returns
    tzOffset,          \* offset of the local zone, in seconds
    nextUuid,          \* number of ids crypto.randomUUID() has handed out
    upcomingAlerts,    \* the alerts the last tick built         (line 203)
    emitted,           \* history: every alert key ever emitted, with its count
    updates,           \* history: how many times setHabits was called
    returnedEarly,     \* history: the handler whose call, the last callback
                       \* to run, returned at its guard; NULL otherwise
    loaded             \* the last call of loadHabitsFromStorage: what it
                       \* read and what it returned

vars == <<habits, selectedHabitId, name, goalPerWeek, reminderTime, alerts,
          reminderCacheRef, storage, effectPending, now, tzOffset, nextUuid,
          upcomingAlerts, emitted, updates, returnedEarly, loaded>>

(***************************************************************************)
(* Bounds of the model.                                                    *)
(***************************************************************************)
MaxUpdates == 2        \* calls of setHabits in one run
MaxAlerts == 2         \* alerts on screen before one must be dismissed
MaxBack == 3           \* days before today whose completion can be toggled

NULL == "null"
SECONDS_PER_DAY == 86400
WINDOW == 30

Range(s) == {s[i] : i \in 1..Len(s)}

(***************************************************************************)
(* Strings as sequences of characters.                                     *)
(***************************************************************************)
Digits == {"0", "1", "2", "3", "4", "5", "6", "7", "8", "9"}

CharCode(c) ==
    CASE c = " " -> 32
      [] c = "-" -> 45
      [] c = "0" -> 48 [] c = "1" -> 49 [] c = "2" -> 50 [] c = "3" -> 51
      [] c = "4" -> 52 [] c = "5" -> 53 [] c = "6" -> 54 [] c = "7" -> 55
      [] c = "8" -> 56 [] c = "9" -> 57
      [] c = ":" -> 58
      [] c = "a" -> 97 [] c = "b" -> 98
      [] OTHER -> 120

\* the order Array.prototype.sort() uses without a comparator
RECURSIVE StrLess(_, _)
StrLess(s, t) ==
    IF t = <<>> THEN FALSE
    ELSE IF s = <<>> THEN TRUE
    ELSE IF CharCode(Head(s)) # CharCode(Head(t))
         THEN CharCode(Head(s)) < CharCode(Head(t))
    ELSE StrLess(Tail(s), Tail(t))

RECURSIVE SortStrings(_)
SortStrings(S) ==
    IF S = {} THEN <<>>
    ELSE LET m == CHOOSE x \in S : \A y \in S : x = y \/ StrLess(x, y)
         IN  <<m>> \o SortStrings(S \ {m})

RECURSIVE SortDates(_)
SortDates(S) ==
    IF S = {} THEN <<>>
    ELSE LET m == CHOOSE x \in S : \A y \in S : x <= y
         IN  <<m>> \o SortDates(S \ {m})

Reverse(s) == [i \in 1..Len(s) |-> s[Len(s) + 1 - i]]

RECURSIVE TrimStart(_)
TrimStart(s) ==
    IF s # <<>> /\ Head(s) = " " THEN TrimStart(Tail(s)) ELSE s

\* trim that trims nothing
trim_none(s) == s

trim(s) == Reverse(TrimStart(Reverse(TrimStart(s))))

\* String.prototype.split(":")
RECURSIVE SplitFrom(_, _)
SplitFrom(s, acc) ==
    IF s = <<>> THEN <<acc>>
    ELSE IF Head(s) = ":" THEN <<acc>> \o SplitFrom(Tail(s), <<>>)
    ELSE SplitFrom(Tail(s), Append(acc, Head(s)))

split(s) == SplitFrom(s, <<>>)

DigitValue(c) == CharCode(c) - 48

RECURSIVE Decimal(_)
Decimal(s) ==
    IF s = <<>> THEN 0
    ELSE 10 * Decimal(SubSeq(s, 1, Len(s) - 1)) + DigitValue(s[Len(s)])

AllDigits(s) == \A i \in 1..Len(s) : s[i] \in Digits

\* Number(text): blank text is 0, an optionally signed run of digits is its
\* value, every other text of the model is NaN
Number(s) ==
    LET t == trim(s)
    IN  IF AllDigits(t) THEN [kind |-> "num", val |-> Decimal(t)]
        ELSE IF Head(t) = "-" /\ Len(t) > 1 /\ AllDigits(Tail(t))
             THEN [kind |-> "num", val |-> 0 - Decimal(Tail(t))]
        ELSE [kind |-> "nan", val |-> 0]

\* what a destructured element that is missing holds
Undefined == [kind |-> "undefined", val |-> 0]
isNaN(x) == x.kind = "nan"
Abs(x) == IF x < 0 THEN 0 - x ELSE x

(***************************************************************************)
(* Dates.                                                                  *)
(***************************************************************************)
\* getFullYear / getMonth / getDate: the local calendar day of a moment
LocalDay(d) == (d + tzOffset) \div SECONDS_PER_DAY
\* Date.UTC(y, m, d): midnight UTC of a calendar day
DateUTC(day) == day * SECONDS_PER_DAY
\* toISOString().slice(0, 10): the UTC calendar day of a moment
ISODate(d) == d \div SECONDS_PER_DAY
\* new Date("YYYY-MM-DD"): a date-only text is read as midnight UTC
ParseDate(key) == key * SECONDS_PER_DAY
\* d.setDate(d.getDate() - 1): one local day earlier, same local time
PreviousDay(d) == d - SECONDS_PER_DAY

getDateKey(inputDate) == ISODate(DateUTC(LocalDay(inputDate)))

getHours(d) == ((d + tzOffset) % SECONDS_PER_DAY) \div 3600
getMinutes(d) == ((d + tzOffset) % 3600) \div 60
getSeconds(d) == (d + tzOffset) % 60

nowSecondsOf(d) == getHours(d) * 3600 + getMinutes(d) * 60 + getSeconds(d)

\* the moment whose local wall clock shows second sec of day
LocalMoment(day, sec) == day * SECONDS_PER_DAY + sec - tzOffset

(***************************************************************************)
(* Seed data and the storage loader.                                       *)
(***************************************************************************)
T0630 == <<"0", "6", ":", "3", "0">>
T1200 == <<"1", "2", ":", "0", "0">>
T2000 == <<"2", "0", ":", "0", "0">>

DEFAULT_HABITS ==
    << [id |-> "habit-1",
        name |-> <<"M", "o", "r", "n", "i", "n", "g", " ", "R", "u", "n">>,
        goalPerWeek |-> 5, reminders |-> <<T0630>>, completions |-> <<>>],
       [id |-> "habit-2",
        name |-> <<"M", "i", "n", "d", "f", "u", "l", " ", "B", "r", "e", "a", "k">>,
        goalPerWeek |-> 7, reminders |-> <<T1200, T2000>>, completions |-> <<>>] >>

buildDefaultHabits(at) ==
    LET today == getDateKey(at)
    IN  [index \in 1..Len(DEFAULT_HABITS) |->
            [DEFAULT_HABITS[index] EXCEPT
                !.completions = IF index = 1 THEN <<today>> ELSE <<>>]]

\* A stored item is absent, or a text; a text either is a JSON document,
\* which JSON.parse turns into its value, or makes JSON.parse throw.
\* "no-window" stands for the server side, where there is no localStorage.
JSONArray(items) == [type |-> "array", items |-> items]
JSONstringify(value) == [text |-> "json", value |-> JSONArray(value)]
JSONparseThrows(raw) == raw.text # "json"
JSONparse(raw) == raw.value

loadHabitsFromStorage(raw, at) ==
    IF raw.text = "no-window" THEN JSONArray(buildDefaultHabits(at))
    ELSE IF raw.text \notin {"absent", "empty"} /\ ~JSONparseThrows(raw)
         THEN JSONparse(raw)
    ELSE JSONArray(buildDefaultHabits(at))

(***************************************************************************)
(* Streaks.                                                                *)
(***************************************************************************)
\* StreakFrom reading the day off toISOString() instead of getDateKey
RECURSIVE StreakFrom_utc(_, _)
StreakFrom_utc(completions, today) ==
    IF ISODate(today) \in completions
    THEN 1 + StreakFrom_utc(completions, PreviousDay(today))
    ELSE 0

RECURSIVE StreakFrom(_, _)
StreakFrom(completions, today) ==
    IF getDateKey(today) \in completions
    THEN 1 + StreakFrom(completions, PreviousDay(today))
    ELSE 0

computeStreak(habit) == StreakFrom(Range(habit.completions), now)

\* the loop of getLongestStreak over the descending list
RECURSIVE LongestWalk(_, _, _, _)
LongestWalk(sorted, previous, current, longest) ==
    IF sorted = <<>> THEN longest
    ELSE LET date == Head(sorted)
             expected == getDateKey(PreviousDay(ParseDate(previous)))
             cur == IF date = expected THEN current + 1 ELSE 1
             lng == IF cur > longest THEN cur ELSE longest
         IN  LongestWalk(Tail(sorted), date, cur, lng)

getLongestStreak(habit) ==
    LET sorted == Reverse(SortDates(Range(habit.completions)))
    IN  IF sorted = <<>> THEN 0
        ELSE LongestWalk(Tail(sorted), Head(sorted), 1, 1)

(***************************************************************************)
(* Aggregates.  A quotient a / b of two counts is kept as the pair of its  *)
(* numerator and denominator; the literal 0 is 0 / 1.                      *)
(***************************************************************************)
Fraction(a, b) == [num |-> a, den |-> b]
Zero == Fraction(0, 1)

\* habits.filter(habit => habit.completions.includes(day)).length
completedOn(hs, day) ==
    Cardinality({i \in 1..Len(hs) : day \in Range(hs[i].completions)})

\* todayCompletionRatio counting the habits that have any completion at all
todayCompletionRatio_anyDay(hs, at) ==
    IF Len(hs) = 0 THEN Zero
    ELSE Fraction(Cardinality({i \in 1..Len(hs) : hs[i].completions # <<>>}),
                  Len(hs))

todayCompletionRatio(hs, at) ==
    LET todayKey == getDateKey(at)
    IN  IF Len(hs) = 0 THEN Zero
        ELSE Fraction(completedOn(hs, todayKey), Len(hs))

\* the loop of getLastSevenDays: unshift the key, step the cursor back
RECURSIVE DaysLoop(_, _, _)
DaysLoop(days, cursor, i) ==
    IF i >= 7 THEN days
    ELSE DaysLoop(<<getDateKey(cursor)>> \o days, PreviousDay(cursor), i + 1)

\* getLastSevenDays whose cursor is read off toISOString()
getLastSevenDays_utc(at) == [i \in 1..7 |-> ISODate(at) - 7 + i]

getLastSevenDays(at) == DaysLoop(<<>>, at, 0)

weeklyProgress(hs, at) ==
    LET days == getLastSevenDays(at)
    IN  [i \in 1..Len(days) |->
            [day |-> days[i],
             completed |-> completedOn(hs, days[i]),
             percentage |-> IF Len(hs) = 0 THEN Zero
                            ELSE Fraction(completedOn(hs, days[i]), Len(hs))]]

(***************************************************************************)
(* The habit store: the updater each handler passes to setHabits.          *)
(***************************************************************************)
HabitIds(hs) == {hs[i].id : i \in 1..Len(hs)}

\* toggleCompletion that adds in both branches
toggleCompletion_addOnly(prev, habitId, dateKey) ==
    [i \in 1..Len(prev) |->
        IF prev[i].id # habitId THEN prev[i]
        ELSE [prev[i] EXCEPT
                !.completions = SortDates(Range(prev[i].completions) \cup {dateKey})]]

\* toggleCompletion that does not look at the id
toggleCompletion_all(prev, habitId, dateKey) ==
    [i \in 1..Len(prev) |->
        LET completions == Range(prev[i].completions)
            toggled == IF dateKey \in completions
                       THEN completions \ {dateKey}
                       ELSE completions \cup {dateKey}
        IN  [prev[i] EXCEPT !.completions = SortDates(toggled)]]

toggleCompletion(prev, habitId, dateKey) ==
    [i \in 1..Len(prev) |->
        IF prev[i].id # habitId THEN prev[i]
        ELSE LET completions == Range(prev[i].completions)
                 toggled == IF dateKey \in completions
                            THEN completions \ {dateKey}
                            ELSE completions \cup {dateKey}
             IN  [prev[i] EXCEPT !.completions = SortDates(toggled)]]

\* newHabit that keeps the goal as it was typed
newHabit_unclamped(id) ==
    [id |-> id,
     name |-> trim(name),
     goalPerWeek |-> goalPerWeek,
     reminders |-> IF reminderTime # <<>> THEN <<reminderTime>> ELSE <<>>,
     completions |-> <<>>]

newHabit(id) ==
    [id |-> id,
     name |-> trim(name),
     goalPerWeek |-> IF goalPerWeek < 1 THEN 1 ELSE goalPerWeek,
     reminders |-> IF reminderTime # <<>> THEN <<reminderTime>> ELSE <<>>,
     completions |-> <<>>]

addHabit(prev, habit) == <<habit>> \o prev

\* addReminder that appends a new time and does not sort
addReminder_unsorted(prev, habitId, time) ==
    [i \in 1..Len(prev) |->
        IF prev[i].id # habitId THEN prev[i]
        ELSE IF time \in Range(prev[i].reminders) THEN prev[i]
        ELSE [prev[i] EXCEPT !.reminders = Append(prev[i].reminders, time)]]

addReminder(prev, habitId, time) ==
    [i \in 1..Len(prev) |->
        IF prev[i].id # habitId THEN prev[i]
        ELSE [prev[i] EXCEPT
                !.reminders = SortStrings(Range(prev[i].reminders) \cup {time})]]

\* removeReminder that removes every reminder of the habit
removeReminder_all(prev, habitId, time) ==
    [i \in 1..Len(prev) |->
        IF prev[i].id # habitId THEN prev[i]
        ELSE [prev[i] EXCEPT !.reminders = <<>>]]

removeReminder(prev, habitId, time) ==
    [i \in 1..Len(prev) |->
        IF prev[i].id # habitId THEN prev[i]
        ELSE [prev[i] EXCEPT
                !.reminders = SelectSeq(prev[i].reminders, LAMBDA rem : rem # time)]]

\* deleteHabit that removes nothing
deleteHabit_keep(prev, habitId) == prev

deleteHabit(prev, habitId) == SelectSeq(prev, LAMBDA habit : habit.id # habitId)

\* dismiss that clears the whole list
dismiss_all(prev, id) == <<>>

dismiss(prev, id) == SelectSeq(prev, LAMBDA alert : alert.id # id)

(***************************************************************************)
(* The reminder evaluator: one run of tick.                                *)
(***************************************************************************)
\* habits.forEach(habit => habit.reminders.forEach(time => ...)), flattened
RECURSIVE ReminderPairs(_)
ReminderPairs(hs) ==
    IF hs = <<>> THEN <<>>
    ELSE [i \in 1..Len(Head(hs).reminders) |->
             [habit |-> Head(hs), time |-> Head(hs).reminders[i]]]
         \o ReminderPairs(Tail(hs))

\* const [hour, minute] = time.split(":").map(Number)
parseTime(time) ==
    LET parts == split(time)
    IN  [hour |-> Number(parts[1]),
         minute |-> IF Len(parts) >= 2 THEN Number(parts[2]) ELSE Undefined]

\* the early return of lines 208-217
skipped(hour, minute) ==
    \/ isNaN(hour)
    \/ isNaN(minute)
    \/ hour.kind = "num" /\ (hour.val < 0 \/ hour.val > 23)
    \/ minute.kind = "num" /\ (minute.val < 0 \/ minute.val > 59)

targetSeconds(hour, minute) == hour.val * 3600 + minute.val * 60

\* delta <= 30; false when the minute is undefined, because delta is NaN
withinWindow(hour, minute, nowSeconds) ==
    /\ hour.kind = "num"
    /\ minute.kind = "num"
    /\ Abs(nowSeconds - targetSeconds(hour, minute)) <= WINDOW

\* whether tick, run at the moment `at`, finds the reminder `time` due
due(time, at) ==
    LET parsed == parseTime(time)
    IN  /\ ~skipped(parsed.hour, parsed.minute)
        /\ withinWindow(parsed.hour, parsed.minute, nowSecondsOf(at))

\* `${habit.id}-${time}-${dateKey}`: the ids are "habit-N" or UUIDs and a
\* date key has a fixed width, so the text determines its three parts
CacheKey(habitId, time, dateKey) == <<habitId, time, dateKey>>

RECURSIVE TickLoop(_, _, _, _)
TickLoop(pairs, keys, upcoming, at) ==
    IF pairs = <<>> THEN [keys |-> keys, upcoming |-> upcoming]
    ELSE LET habit == Head(pairs).habit
             time == Head(pairs).time
             cacheKey == CacheKey(habit.id, time, getDateKey(at))
         IN  IF due(time, at) /\ cacheKey \notin keys
             THEN TickLoop(Tail(pairs), keys \cup {cacheKey},
                           Append(upcoming,
                                  [id |-> <<cacheKey, at>>,
                                   habitId |-> habit.id,
                                   habitName |-> habit.name,
                                   time |-> time,
                                   timestamp |-> at]),
                           at)
             ELSE TickLoop(Tail(pairs), keys, upcoming, at)

\* rolledCache with the test always taken: the cache is emptied by every tick
rolledCache_always(cache, at) == [date |-> getDateKey(at), keys |-> {}]

\* rolledCache with the test never taken: the cache keeps its first date
rolledCache_never(cache, at) == cache

\* rolledCache that adopts the new date and keeps the keys of the old one
rolledCache_keepKeys(cache, at) == [date |-> getDateKey(at), keys |-> cache.keys]

\* the cache after the rollover test of lines 196-199
rolledCache(cache, at) ==
    IF cache.date # getDateKey(at)
    THEN [date |-> getDateKey(at), keys |-> {}]
    ELSE cache

tickResult(hs, cache, at) ==
    LET rolled == rolledCache(cache, at)
        looped == TickLoop(ReminderPairs(hs), rolled.keys, <<>>, at)
    IN  [cache |-> [date |-> rolled.date, keys |-> looped.keys],
         upcoming |-> looped.upcoming]

KeysOf(upcoming) ==
    {CacheKey(upcoming[i].habitId, upcoming[i].time, getDateKey(upcoming[i].timestamp))
        : i \in 1..Len(upcoming)}

CountKey(upcoming, k) ==
    Cardinality({i \in 1..Len(upcoming) :
        CacheKey(upcoming[i].habitId, upcoming[i].time,
                 getDateKey(upcoming[i].timestamp)) = k})

Record(log, upcoming) ==
    [k \in DOMAIN log \cup KeysOf(upcoming) |->
        (IF k \in DOMAIN log THEN log[k] ELSE 0) + CountKey(upcoming, k)]

\* tick, run at the moment `at` over the habits hs
tick(hs, at) ==
    LET result == tickResult(hs, reminderCacheRef, at)
    IN  /\ reminderCacheRef' = result.cache
        /\ upcomingAlerts' = result.upcoming
        /\ alerts' = alerts \o result.upcoming
        /\ emitted' = Record(emitted, result.upcoming)

(***************************************************************************)
(* The next reminder shown on a card.                                      *)
(***************************************************************************)
\* [...list].sort(): the list in code-unit order, duplicates kept
RECURSIVE InsertSorted(_, _)
InsertSorted(x, sorted) ==
    IF sorted = <<>> THEN <<x>>
    ELSE IF StrLess(x, Head(sorted)) THEN <<x>> \o sorted
    ELSE <<Head(sorted)>> \o InsertSorted(x, Tail(sorted))

RECURSIVE sort(_)
sort(list) ==
    IF list = <<>> THEN <<>> ELSE InsertSorted(Head(list), sort(Tail(list)))

\* the value a function returns: null or a text
Null == [type |-> "null"]
Text(value) == [type |-> "string", value |-> value]

\* reminderMinutes > nowMinutes; false when reminderMinutes is NaN
laterThan(time, nowMinutes) ==
    LET parsed == parseTime(time)
    IN  /\ parsed.hour.kind = "num"
        /\ parsed.minute.kind = "num"
        /\ parsed.hour.val * 60 + parsed.minute.val > nowMinutes

\* the loop of lines 163-170 and the return of line 172
RECURSIVE NextLoop(_, _, _)
NextLoop(rest, nowMinutes, first) ==
    IF rest = <<>> THEN Text(first)
    ELSE IF laterThan(Head(rest), nowMinutes) THEN Text(Head(rest))
    ELSE NextLoop(Tail(rest), nowMinutes, first)

\* getNextReminderForHabit that returns the first of the list as it is stored
getNextReminderForHabit_first(habit, at) ==
    IF Len(habit.reminders) = 0 THEN Null ELSE Text(habit.reminders[1])

getNextReminderForHabit(habit, at) ==
    IF Len(habit.reminders) = 0 THEN Null
    ELSE LET nowMinutes == getHours(at) * 60 + getMinutes(at)
             sorted == sort(habit.reminders)
         IN  NextLoop(sorted, nowMinutes, sorted[1])

(***************************************************************************)
(* Callbacks.  An event handled at the moment t moves the clock to t.  A   *)
(* handler that calls setHabits makes React render again and then run the  *)
(* two effects that depend on [habits] before the next event is handled.   *)
(***************************************************************************)
\* setHabits(updater)
setHabits(next) ==
    /\ habits' = next
    /\ updates' = updates + 1
    /\ effectPending' = TRUE

\* lines 189-191 and 193-245: save the habits, then run tick once
RunEffects ==
    /\ effectPending
    /\ storage' = JSONstringify(habits)
    /\ tick(habits, now)
    /\ effectPending' = FALSE
    /\ returnedEarly' = NULL
    /\ UNCHANGED <<habits, selectedHabitId, name, goalPerWeek, reminderTime,
                   now, tzOffset, nextUuid, updates, loaded>>

\* the callback of setInterval(tick, 30_000), firing at the moment t
IntervalTick(t) ==
    /\ ~effectPending
    /\ t >= now
    /\ now' = t
    /\ tick(habits, t)
    /\ returnedEarly' = NULL
    /\ UNCHANGED <<habits, selectedHabitId, name, goalPerWeek, reminderTime,
                   storage, effectPending, tzOffset, nextUuid, updates, loaded>>

handleToggleCompletion(habitId, dateKey, t) ==
    /\ ~effectPending
    /\ t >= now
    /\ now' = t
    /\ setHabits(toggleCompletion(habits, habitId, dateKey))
    /\ returnedEarly' = NULL
    /\ UNCHANGED <<selectedHabitId, name, goalPerWeek, reminderTime, alerts,
                   reminderCacheRef, storage, tzOffset, nextUuid,
                   upcomingAlerts, emitted, loaded>>

randomUUID(n) == "uuid-" \o ToString(n)

handleAddHabit(t) ==
    /\ ~effectPending
    /\ t >= now
    /\ now' = t
    /\ IF trim(name) = <<>>
       THEN /\ returnedEarly' = "handleAddHabit"
            /\ UNCHANGED <<habits, selectedHabitId, name, goalPerWeek,
                           reminderTime, effectPending, nextUuid, updates>>
       ELSE /\ setHabits(addHabit(habits, newHabit(randomUUID(nextUuid + 1))))
            /\ selectedHabitId' = randomUUID(nextUuid + 1)
            /\ nextUuid' = nextUuid + 1
            /\ name' = <<>>
            /\ goalPerWeek' = 5
            /\ reminderTime' = <<>>
            /\ returnedEarly' = NULL
    /\ UNCHANGED <<alerts, reminderCacheRef, storage, tzOffset,
                   upcomingAlerts, emitted, loaded>>

handleAddReminder(habitId, time, t) ==
    /\ ~effectPending
    /\ t >= now
    /\ now' = t
    /\ IF time = <<>>
       THEN /\ returnedEarly' = "handleAddReminder"
            /\ UNCHANGED <<habits, effectPending, updates>>
       ELSE /\ setHabits(addReminder(habits, habitId, time))
            /\ returnedEarly' = NULL
    /\ UNCHANGED <<selectedHabitId, name, goalPerWeek, reminderTime, alerts,
                   reminderCacheRef, storage, tzOffset, nextUuid,
                   upcomingAlerts, emitted, loaded>>

handleRemoveReminder(habitId, time, t) ==
    /\ ~effectPending
    /\ t >= now
    /\ now' = t
    /\ setHabits(removeReminder(habits, habitId, time))
    /\ returnedEarly' = NULL
    /\ UNCHANGED <<selectedHabitId, name, goalPerWeek, reminderTime, alerts,
                   reminderCacheRef, storage, tzOffset, nextUuid,
                   upcomingAlerts, emitted, loaded>>

handleDeleteHabit(habitId, t) ==
    /\ ~effectPending
    /\ t >= now
    /\ now' = t
    /\ setHabits(deleteHabit(habits, habitId))
    /\ selectedHabitId' = IF selectedHabitId = habitId THEN NULL ELSE selectedHabitId
    /\ returnedEarly' = NULL
    /\ UNCHANGED <<name, goalPerWeek, reminderTime, alerts, reminderCacheRef,
                   storage, tzOffset, nextUuid, upcomingAlerts, emitted, loaded>>

dismissAlert(id) ==
    /\ ~effectPending
    /\ alerts' = dismiss(alerts, id)
    /\ returnedEarly' = NULL
    /\ UNCHANGED <<habits, selectedHabitId, name, goalPerWeek, reminderTime,
                   reminderCacheRef, storage, effectPending, now, tzOffset,
                   nextUuid, upcomingAlerts, emitted, updates, loaded>>

\* the onClick of a habit card, lines 502-506
selectHabit(habitId) ==
    /\ ~effectPending
    /\ selectedHabitId' = IF selectedHabitId = habitId THEN NULL ELSE habitId
    /\ returnedEarly' = NULL
    /\ UNCHANGED <<habits, name, goalPerWeek, reminderTime, alerts,
                   reminderCacheRef, storage, effectPending, now, tzOffset,
                   nextUuid, upcomingAlerts, emitted, updates, loaded>>

setName(value) ==
    /\ ~effectPending
    /\ name' = value
    /\ returnedEarly' = NULL
    /\ UNCHANGED <<habits, selectedHabitId, goalPerWeek, reminderTime, alerts,
                   reminderCacheRef, storage, effectPending, now, tzOffset,
                   nextUuid, upcomingAlerts, emitted, updates, loaded>>

setGoalPerWeek(value) ==
    /\ ~effectPending
    /\ goalPerWeek' = value
    /\ returnedEarly' = NULL
    /\ UNCHANGED <<habits, selectedHabitId, name, reminderTime, alerts,
                   reminderCacheRef, storage, effectPending, now, tzOffset,
                   nextUuid, upcomingAlerts, emitted, updates, loaded>>

setReminderTime(value) ==
    /\ ~effectPending
    /\ reminderTime' = value
    /\ returnedEarly' = NULL
    /\ UNCHANGED <<habits, selectedHabitId, name, goalPerWeek, alerts,
                   reminderCacheRef, storage, effectPending, now, tzOffset,
                   nextUuid, upcomingAlerts, emitted, updates, loaded>>

\* the component right after its first render, mounted at the moment `at`
Mounted(at) ==
    /\ now = at
    /\ storage = [text |-> "absent"]
    /\ loaded = [raw |-> storage, value |-> loadHabitsFromStorage(storage, now)]
    /\ habits = loaded.value.items
    /\ selectedHabitId = NULL
    /\ name = <<>>
    /\ goalPerWeek = 5
    /\ reminderTime = <<>>
    /\ alerts = <<>>
    /\ reminderCacheRef = [date |-> getDateKey(now), keys |-> {}]
    /\ effectPending = TRUE
    /\ nextUuid = 0
    /\ upcomingAlerts = <<>>
    /\ emitted = <<>>
    /\ updates = 0
    /\ returnedEarly = NULL

T0000 == <<"0", "0", ":", "0", "0">>
T2400 == <<"2", "4", ":", "0", "0">>
Offsets == {0 - 18000, 0, 19800}
GhostId == "habit-0"

\* bounds on a run: so many updates, so many alerts on screen
Budget == updates < MaxUpdates
Room == Len(alerts') <= MaxAlerts

(***************************************************************************)
(* Spec: the reminder evaluator at work.  Ticks around 06:30 on two days,  *)
(* interleaved with the store handlers and with dismissals.                *)
(***************************************************************************)
\* 06:30:00, :29 and :31
Seconds == {23400, 23429, 23431}
Moments == {LocalMoment(day, sec) : day \in {0, 1}, sec \in Seconds}

Init ==
    /\ tzOffset = 0 - 18000
    /\ Mounted(LocalMoment(0, 23400))

Next ==
    \/ RunEffects /\ Room
    \/ \E t \in Moments : IntervalTick(t) /\ Room
    \/ \E t \in Moments : Budget /\ handleToggleCompletion("habit-1", 0, t)
    \/ \E t \in Moments : Budget /\ handleAddHabit(t)
    \/ \E id \in HabitIds(habits), t \in Moments :
          Budget /\ handleAddReminder(id, T0630, t)
    \/ \E id \in HabitIds(habits), t \in Moments :
          Budget /\ handleRemoveReminder(id, T0630, t)
    \/ \E id \in HabitIds(habits), t \in Moments :
          Budget /\ handleDeleteHabit(id, t)
    \/ \E i \in 1..Len(alerts) : dismissAlert(alerts[i].id)
    \/ setName(<<" ", "a", " ">>)

Spec == Init /\ [][Next]_vars

(***************************************************************************)
(* SpecStore: the habit store, the form and the selection, with the clock  *)
(* standing at 10:00, when no reminder of the model is due.                *)
(***************************************************************************)
StoreIds == HabitIds(habits) \cup {GhostId}
StoreDates == {getDateKey(now) - 1, getDateKey(now)}
StoreTimes == {<<>>, T0000, T2400}

InitStore ==
    /\ tzOffset = 19800
    /\ Mounted(LocalMoment(0, 36000))

NextStore ==
    \/ RunEffects
    \/ \E id \in StoreIds, d \in StoreDates :
          Budget /\ handleToggleCompletion(id, d, now)
    \/ Budget /\ handleAddHabit(now)
    \/ \E id \in StoreIds, time \in StoreTimes :
          Budget /\ handleAddReminder(id, time, now)
    \/ \E id \in StoreIds, time \in StoreTimes \cup {T0630} :
          Budget /\ handleRemoveReminder(id, time, now)
    \/ \E id \in StoreIds : Budget /\ handleDeleteHabit(id, now)
    \/ \E id \in HabitIds(habits) : selectHabit(id)
    \/ \E value \in {<<" ">>, <<" ", "a", " ">>} : setName(value)
    \/ setGoalPerWeek(0)
    \/ setReminderTime(T0630)

SpecStore == InitStore /\ [][NextStore]_vars

(***************************************************************************)
(* SpecStreak: completions toggled over today and the MaxBack days before  *)
(* it, in zones west and east of Greenwich, late and early in the day.     *)
(***************************************************************************)
StreakDates == (getDateKey(now) - MaxBack)..getDateKey(now)

InitStreak ==
    /\ tzOffset \in Offsets
    /\ \E sec \in {600, 43200, 85800} : Mounted(LocalMoment(0, sec))

NextStreak ==
    \/ RunEffects
    \/ \E id \in HabitIds(habits), d \in StreakDates :
          Budget /\ handleToggleCompletion(id, d, now)

SpecStreak == InitStreak /\ [][NextStreak]_vars

(***************************************************************************)
(* SpecTick: the evaluator alone.  Ticks at the edges of the window of     *)
(* 06:30 and on both sides of midnight, over two days; reminders valid and *)
(* invalid are added on the way.                                           *)
(***************************************************************************)
TickSeconds == {0, 31, 23369, 23370, 23400, 23415, 23429, 23431, 86370}
TickMoments == {LocalMoment(day, sec) : day \in {0, 1}, sec \in TickSeconds}
TickTimes == {T0000, T2400}

InitTick ==
    /\ tzOffset = 19800
    /\ Mounted(LocalMoment(0, 23369))

NextTick ==
    \/ RunEffects /\ Room
    \/ \E t \in TickMoments : IntervalTick(t) /\ Room
    \/ \E time \in TickTimes : Budget /\ handleAddReminder("habit-1", time, now)
    \/ \E i \in 1..Len(alerts) : dismissAlert(alerts[i].id)

SpecTick == InitTick /\ [][NextTick]_vars

(***************************************************************************)
(* SpecCadence: a timer that never lets more than 60 seconds pass between  *)
(* two ticks, from the last minute of day 0 to the first tick of day 2. A  *)
(* reminder added on day 0 is held through the whole of day 1.             *)
(***************************************************************************)
T2359 == <<"2", "3", ":", "5", "9">>
CadenceTimes == {T0000, T2359}
Gaps == {30, 60}

InitCadence ==
    /\ tzOffset = 0
    /\ Mounted(LocalMoment(0, 86355))

NextCadence ==
    \/ RunEffects
    \/ \E gap \in Gaps :
          /\ getDateKey(now) < 2
          /\ IntervalTick(now + gap)
    \/ \E time \in CadenceTimes :
          /\ getDateKey(now) = 0
          /\ updates = 0
          /\ handleAddReminder("habit-1", time, now)

SpecCadence == InitCadence /\ [][NextCadence]_vars

(***************************************************************************)
(* SpecLoad: loadHabitsFromStorage over what localStorage may hold.        *)
(***************************************************************************)
JSONText(value) == [text |-> "json", value |-> value]
HabitFields == {"id", "name", "goalPerWeek", "reminders", "completions"}

StoredItems ==
    {[text |-> "no-window"], [text |-> "absent"], [text |-> "empty"],
     [text |-> "garbage"],
     JSONText([type |-> "null"]), JSONText([type |-> "number"]),
     JSONText([type |-> "object"]),
     JSONText(JSONArray(<<[id |-> "habit-1"]>>)),
     JSONText(JSONArray(<<>>)),
     JSONText(JSONArray(DEFAULT_HABITS)),
     JSONText(JSONArray(toggleCompletion(DEFAULT_HABITS, "habit-2", 0))),
     JSONText(JSONArray(deleteHabit(DEFAULT_HABITS, "habit-1")))}

InitLoad ==
    /\ tzOffset = 0
    /\ now = LocalMoment(0, 36000)
    /\ storage \in StoredItems
    /\ loaded = [raw |-> [text |-> "absent"], value |-> [type |-> "undefined"]]
    /\ habits = <<>>
    /\ selectedHabitId = NULL
    /\ name = <<>>
    /\ goalPerWeek = 5
    /\ reminderTime = <<>>
    /\ alerts = <<>>
    /\ reminderCacheRef = [date |-> getDateKey(now), keys |-> {}]
    /\ effectPending = FALSE
    /\ nextUuid = 0
    /\ upcomingAlerts = <<>>
    /\ emitted = <<>>
    /\ updates = 0
    /\ returnedEarly = NULL

\* the initializer of useState runs loadHabitsFromStorage
Load ==
    /\ loaded' = [raw |-> storage, value |-> loadHabitsFromStorage(storage, now)]
    /\ UNCHANGED <<habits, selectedHabitId, name, goalPerWeek, reminderTime,
                   alerts, reminderCacheRef, storage, effectPending, now,
                   tzOffset, nextUuid, upcomingAlerts, emitted, updates,
                   returnedEarly>>

\* something else (another tab, an older build, the user) writes the item
Write(raw) ==
    /\ storage' = raw
    /\ UNCHANGED <<habits, selectedHabitId, name, goalPerWeek, reminderTime,
                   alerts, reminderCacheRef, effectPending, now, tzOffset,
                   nextUuid, upcomingAlerts, emitted, updates, returnedEarly,
                   loaded>>

NextLoad ==
    \/ Load
    \/ \E raw \in StoredItems : Write(raw)

SpecLoad == InitLoad /\ [][NextLoad]_vars

(***************************************************************************)
(* SpecWeek: the week strip.  The days of the strip, and the day before    *)
(* the strip, are toggled for the first habit, in three zones and at three *)
(* times of day; the second habit can be deleted.                          *)
(***************************************************************************)
MaxToggles == 7
WeekDates == (getDateKey(now) - 7)..getDateKey(now)

InitWeek ==
    /\ tzOffset \in Offsets
    /\ \E sec \in {600, 85800} : Mounted(LocalMoment(0, sec))

NextWeek ==
    \/ RunEffects
    \/ \E d \in WeekDates :
          updates < MaxToggles /\ handleToggleCompletion("habit-1", d, now)
    \/ updates < MaxToggles /\ handleDeleteHabit("habit-2", now)
    \/ updates < MaxToggles /\ handleDeleteHabit("habit-1", now)

SpecWeek == InitWeek /\ [][NextWeek]_vars

(***************************************************************************)
(* SpecEntries: the evaluator over reminder entries that are not HH:MM.    *)
(* Entries are added to either habit around noon, when the second habit    *)
(* has a reminder due, and ticks run at noon, at 13:00 and before midnight.*)
(***************************************************************************)
T12E == <<"1", "2", ":">>
TAB00 == <<"a", "b", ":", "0", "0">>
T1260 == <<"1", "2", ":", "6", "0">>
T12 == <<"1", "2">>
EntryTimes == {T12E, TAB00, T2400, T1260, T12, T1200}
EntrySeconds == {43169, 43170, 43200, 43230, 43231, 46800, 86370}
EntryMoments == {LocalMoment(0, sec) : sec \in EntrySeconds}

InitEntries ==
    /\ tzOffset = 0
    /\ Mounted(LocalMoment(0, 43140))

NextEntries ==
    \/ RunEffects
    \/ \E t \in EntryMoments : IntervalTick(t)
    \/ \E id \in HabitIds(habits), time \in EntryTimes :
          Budget /\ handleAddReminder(id, time, now)

SpecEntries == InitEntries /\ [][NextEntries]_vars

(***************************************************************************)
(* SpecAdd: the form.  Names blank and not, goals below and above 1, with  *)
(* and without a reminder time, and the habits added from them.            *)
(***************************************************************************)
Goals == {0 - 1, 0, 1, 8}

InitAdd ==
    /\ tzOffset = 0
    /\ Mounted(LocalMoment(0, 36000))

NextAdd ==
    \/ RunEffects
    \/ Budget /\ handleAddHabit(now)
    \/ \E value \in {<<" ">>, <<" ", "a", " ">>} : setName(value)
    \/ \E value \in Goals : setGoalPerWeek(value)
    \/ \E value \in {<<>>, T2400} : setReminderTime(value)

SpecAdd == InitAdd /\ [][NextAdd]_vars

(***************************************************************************)
(* SpecReminders: reminders added and removed, for ids in the store and    *)
(* not, for times there and not, the empty time included.                  *)
(***************************************************************************)
MaxEdits == 3

NextReminders ==
    \/ RunEffects
    \/ \E id \in StoreIds, time \in StoreTimes :
          updates < MaxEdits /\ handleAddReminder(id, time, now)
    \/ \E id \in StoreIds, time \in StoreTimes \cup {T0630} :
          updates < MaxEdits /\ handleRemoveReminder(id, time, now)

SpecReminders == InitStore /\ [][NextReminders]_vars

(***************************************************************************)
(* SpecNext: the next reminder of each card, at moments before, between    *)
(* and after the reminders, which are added and removed on the way; one of *)
(* the times is written without its leading zero.                          *)
(***************************************************************************)
T630 == <<"6", ":", "3", "0">>
NextTimes == {T0000, T630, T1200}
NextSeconds == {18000, 23400, 23459, 23460, 43200, 72000, 82800}
NextMoments == {LocalMoment(0, sec) : sec \in NextSeconds}

InitNext ==
    /\ tzOffset = 19800
    /\ Mounted(LocalMoment(0, 60))

NextNext ==
    \/ RunEffects
    \/ \E t \in NextMoments : IntervalTick(t)
    \/ \E id \in HabitIds(habits), time \in NextTimes :
          Budget /\ handleAddReminder(id, time, now)
    \/ \E id \in HabitIds(habits), time \in {T0630, T1200, T2000} :
          Budget /\ handleRemoveReminder(id, time, now)

SpecNext == InitNext /\ [][NextNext]_vars

(***************************************************************************)
(* Properties.                                                             *)
(***************************************************************************)
\* some habit with the id `id` satisfies P
Some(id, P(_)) == \E i \in 1..Len(habits) : habits[i].id = id /\ P(habits[i])
Holds(id, time) ==
    \E i \in 1..Len(habits) :
        habits[i].id = id /\ time \in Range(habits[i].reminders)

\* the number of days, counted back from and including day d, that are in S
BackRun(S, d) ==
    CHOOSE k \in 0..Cardinality(S) :
        /\ \A i \in 0..(k - 1) : (d - i) \in S
        /\ (d - k) \notin S

Max(S) == CHOOSE x \in S : \A y \in S : y <= x

\* the length of the longest run of consecutive days in S
LongestRun(S) == IF S = {} THEN 0 ELSE Max({BackRun(S, d) : d \in S})

Blank(s) == \A i \in 1..Len(s) : s[i] = " "

StrictlyAscendingDates(s) == \A i \in 1..(Len(s) - 1) : s[i] < s[i + 1]
StrictlyAscendingTimes(s) == \A i \in 1..(Len(s) - 1) : StrLess(s[i], s[i + 1])

\* C1: however the ticks, the store handlers and the dismissals interleave,
\* no key (habitId, reminder time, dateId) is ever emitted more than once,
\* and no two alerts on screen carry the same key.
C1_AtMostOneAlertPerKey ==
    /\ \A k \in DOMAIN emitted : emitted[k] <= 1
    /\ \A i, j \in 1..Len(alerts) :
          (/\ alerts[i].habitId = alerts[j].habitId
           /\ alerts[i].time = alerts[j].time
           /\ getDateKey(alerts[i].timestamp) = getDateKey(alerts[j].timestamp))
          => i = j

\* C1 witness: after a store update, a key was emitted once, its alert was
\* dismissed, the habit still holds the reminder, and a later tick inside
\* the same window has just run and emitted nothing.
C1_Witness ==
    /\ ~effectPending
    /\ returnedEarly = NULL
    /\ updates >= 1
    /\ upcomingAlerts = <<>>
    /\ alerts = <<>>
    /\ nowSecondsOf(now) = 23429
    /\ \E k \in DOMAIN emitted :
          /\ emitted[k] = 1
          /\ k[3] = getDateKey(now)
          /\ due(k[2], now)
          /\ Holds(k[1], k[2])

\* C3: the longest streak of a habit is never shorter than its current streak,
\* in every zone.
C3_LongestAtLeastCurrent ==
    \A i \in 1..Len(habits) :
        getLongestStreak(habits[i]) >= computeStreak(habits[i])

\* C5: toggling the same (habitId, dateId) twice gives back every habit's
\* completions as a set and leaves everything else of the collection as it was.
C5_ToggleTwiceRestores ==
    \A id \in StoreIds, d \in StoreDates :
        LET twice == toggleCompletion(toggleCompletion(habits, id, d), id, d)
        IN  /\ Len(twice) = Len(habits)
            /\ \A i \in 1..Len(habits) :
                  /\ Range(twice[i].completions) = Range(habits[i].completions)
                  /\ [twice[i] EXCEPT !.completions = <<>>]
                       = [habits[i] EXCEPT !.completions = <<>>]
                  /\ habits[i].id # id => twice[i] = habits[i]

\* C5 witness: toggles have put a second date, earlier than the first, into
\* the completions of a habit, so a double toggle has to take a date out of
\* the middle of a list and put it back.
C5_Witness ==
    /\ ~effectPending
    /\ Some("habit-1", LAMBDA h :
            h.completions = <<getDateKey(now) - 1, getDateKey(now)>>)
    /\ Some("habit-2", LAMBDA h : h.completions = <<getDateKey(now)>>)

\* C6: computeStreak is the number of consecutive days, counted back from and
\* including today, that are all completed: 0 when today is not completed,
\* k when the completions are exactly the last k days.
C6_CurrentStreakIsBackRun ==
    \A i \in 1..Len(habits) :
        LET S == Range(habits[i].completions)
            today == LocalDay(now)
        IN  /\ computeStreak(habits[i]) = BackRun(S, today)
            /\ today \notin S => computeStreak(habits[i]) = 0
            /\ \A k \in 0..(MaxBack + 1) :
                  S = {today - j : j \in 0..(k - 1)} => computeStreak(habits[i]) = k

\* C6 witness: west of Greenwich, late in the evening, a habit completed
\* today, yesterday and three days ago has a current streak of 2.
C6_Witness ==
    /\ tzOffset < 0
    /\ ISODate(now) # LocalDay(now)
    /\ Some("habit-1", LAMBDA h :
            /\ h.completions = <<LocalDay(now) - 3, LocalDay(now) - 1, LocalDay(now)>>
            /\ computeStreak(h) = 2)

\* C7: getLongestStreak is the length of the longest run of consecutive dates
\* among the completions, in every zone.
C7_LongestIsLongestRun ==
    \A i \in 1..Len(habits) :
        getLongestStreak(habits[i]) = LongestRun(Range(habits[i].completions))

\* C8: from the seed on, every habit's completions and reminders are strictly
\* ascending: sorted and free of duplicates.
C8_ListsStrictlyAscending ==
    \A i \in 1..Len(habits) :
        /\ StrictlyAscendingDates(habits[i].completions)
        /\ StrictlyAscendingTimes(habits[i].reminders)

\* C8 witness: a reminder that sorts before the one the habit had was added,
\* and a completion earlier than the one it had was toggled on.
C8_Witness ==
    /\ Some("habit-1", LAMBDA h :
            /\ h.reminders = <<T0000, T0630>>
            /\ h.completions = <<getDateKey(now) - 1, getDateKey(now)>>)

\* C10: handleAddHabit with an empty or whitespace-only name changes neither
\* the habits nor the selection nor the alerts: no step creates a habit while
\* the name is blank, and the call that returns at the guard changes nothing.
C10_BlankNameIsNoOp ==
    [][/\ Blank(name) => (nextUuid' = nextUuid /\ Len(habits') <= Len(habits))
       /\ returnedEarly' = "handleAddHabit" =>
            /\ Blank(name)
            /\ habits' = habits
            /\ selectedHabitId' = selectedHabitId
            /\ alerts' = alerts
            /\ effectPending' = effectPending]_vars

\* C10 witness: handleAddHabit was called with a name of one space and
\* returned at its guard.
C10_Witness ==
    /\ returnedEarly = "handleAddHabit"
    /\ name = <<" ">>

Emitted(habitId, time, dateKey) ==
    IF CacheKey(habitId, time, dateKey) \in DOMAIN emitted
    THEN emitted[CacheKey(habitId, time, dateKey)]
    ELSE 0

\* an HH:MM with the hour in 0..23 and the minute in 0..59
validTime(time) ==
    /\ ~skipped(parseTime(time).hour, parseTime(time).minute)
    /\ parseTime(time).minute.kind = "num"

\* C2: while a habit holds a reminder, every tick inside the window of the
\* reminder leaves exactly one alert emitted for it on the day of the tick
\* (so ticks at T, T+15 and T+29 emit one in total, and the first tick at T
\* of the next day emits one new alert); no tick emits an alert outside the
\* window (so the tick at T+31 emits none); and a tick leaves the cache
\* with the date of the tick.
C2_RolloverRearms ==
    /\ ~effectPending =>
          /\ reminderCacheRef.date = getDateKey(now)
          /\ \A i \in 1..Len(habits) : \A time \in Range(habits[i].reminders) :
                due(time, now) => Emitted(habits[i].id, time, getDateKey(now)) = 1
    /\ \A i \in 1..Len(upcomingAlerts) :
          due(upcomingAlerts[i].time, upcomingAlerts[i].timestamp)
    /\ \A k \in DOMAIN emitted : emitted[k] <= 1

\* C2 witness: the tick at 06:30:00 of day 1 has just emitted the one alert
\* of that day, after the alert of day 0 was emitted at 06:30:00 of day 0.
C2_Witness ==
    /\ ~effectPending
    /\ now = LocalMoment(1, 23400)
    /\ Len(upcomingAlerts) = 1
    /\ upcomingAlerts[1].time = T0630
    /\ upcomingAlerts[1].timestamp = now
    /\ Emitted("habit-1", T0630, 0) = 1
    /\ Emitted("habit-1", T0630, 1) = 1
    /\ \E i \in 1..Len(alerts) : alerts[i].timestamp = LocalMoment(0, 23400)

\* C4: with ticks never more than 60 seconds apart, a valid reminder held
\* through a whole day is alerted exactly once on that day.
C4_ExactlyOncePerDay ==
    (~effectPending /\ getDateKey(now) = 2) =>
        \A i \in 1..Len(habits) : \A time \in Range(habits[i].reminders) :
            validTime(time) => Emitted(habits[i].id, time, 1) = 1

WellFormedValue(value) ==
    /\ value.type = "array"
    /\ \A i \in 1..Len(value.items) : DOMAIN value.items[i] = HabitFields

\* C9: loadHabitsFromStorage returns the seed whenever the item is absent or
\* malformed, and never returns a malformed collection.
C9_LoadFallsBackToSeed ==
    loaded.value.type # "undefined" =>
        /\ WellFormedValue(loaded.value)
        /\ (\/ loaded.raw.text # "json"
            \/ ~WellFormedValue(loaded.raw.value))
           => loaded.value = JSONArray(buildDefaultHabits(now))

\* the sum of f over the indices 1..n
RECURSIVE Sum(_, _)
Sum(f, n) == IF n = 0 THEN 0 ELSE f[n] + Sum(f, n - 1)

\* C11: todayCompletionRatio is the number of habits completed today over the
\* number of habits, so it lies in [0, 1]; it is 0 for an empty collection
\* and 1 when every habit is completed today.
C11_TodayRatio ==
    LET ratio == todayCompletionRatio(habits, now)
        today == LocalDay(now)
        done == {i \in 1..Len(habits) : today \in Range(habits[i].completions)}
    IN  /\ ratio.den > 0
        /\ 0 <= ratio.num /\ ratio.num <= ratio.den
        /\ ratio.num * Len(habits) = Cardinality(done) * ratio.den
        /\ Len(habits) = 0 => ratio.num = 0
        /\ (Len(habits) > 0 /\ Cardinality(done) = Len(habits))
              => ratio.num = ratio.den

\* C11 witness: three habits, the two older ones completed today and the
\* newest one not.
C11_Witness ==
    /\ ~effectPending
    /\ Len(habits) = 3
    /\ todayCompletionRatio(habits, now) = Fraction(2, 3)
    /\ Some("habit-1", LAMBDA h : Len(h.completions) = 1)
    /\ Some("habit-2", LAMBDA h : Len(h.completions) = 1)

\* C12: weeklyProgress has exactly 7 entries, for the 7 consecutive days that
\* end today, oldest first; the count of an entry is the number of habits
\* completed on its day and its fraction is count / habits (0 without
\* habits); a single habit completed on all 7 days gives counts summing to 7.
C12_WeeklyProgress ==
    LET week == weeklyProgress(habits, now)
        today == LocalDay(now)
    IN  /\ Len(week) = 7
        /\ \A i \in 1..7 :
              /\ week[i].day = today - 7 + i
              /\ week[i].completed =
                    Cardinality({j \in 1..Len(habits) :
                                    week[i].day \in Range(habits[j].completions)})
              /\ week[i].percentage.den > 0
              /\ week[i].percentage.num * Len(habits)
                    = week[i].completed * week[i].percentage.den
              /\ Len(habits) = 0 => week[i].percentage.num = 0
        /\ (/\ Len(habits) = 1
            /\ \A d \in (today - 6)..today : d \in Range(habits[1].completions))
           => Sum([i \in 1..7 |-> week[i].completed], 7) = 7

\* C12 witness: a single habit completed on each of the 7 days of the strip,
\* late in the evening west of Greenwich.
C12_Witness ==
    /\ ~effectPending
    /\ tzOffset < 0
    /\ nowSecondsOf(now) = 85800
    /\ Len(habits) = 1
    /\ Range(habits[1].completions) = (getDateKey(now) - 6)..getDateKey(now)

IsPrefix(a, b) == Len(a) <= Len(b) /\ SubSeq(b, 1, Len(a)) = a

\* b holds the elements of a that satisfy Keep, each once, in the order of a
IsFiltered(a, b, Keep(_)) ==
    \E pos \in [1..Len(b) -> 1..Len(a)] :
        /\ \A i \in 1..Len(b) : b[i] = a[pos[i]]
        /\ \A i, j \in 1..Len(b) : i < j => pos[i] < pos[j]
        /\ \A k \in 1..Len(a) : Keep(a[k]) <=> \E i \in 1..Len(b) : pos[i] = k

\* C13: only dismissAlert removes alerts.  Every other step leaves the list
\* of alerts a prefix of the new list (a tick appends, a store handler, the
\* deletion of the habit of an alert included, changes nothing);
\* dismissAlert(id) leaves exactly the alerts with another id, in their
\* order; and an alert that is appended carries a key that was never emitted
\* before, so a dismissed alert does not come back on its day.
C13_AlertsOnlyDismissed ==
    [][/\ \A i \in 1..Len(alerts) :
             dismissAlert(alerts[i].id) =>
                 IsFiltered(alerts, alerts', LAMBDA a : a.id # alerts[i].id)
       /\ ~(\E i \in 1..Len(alerts) : dismissAlert(alerts[i].id)) =>
             /\ IsPrefix(alerts, alerts')
             /\ \A j \in (Len(alerts) + 1)..Len(alerts') :
                   Emitted(alerts'[j].habitId, alerts'[j].time,
                           getDateKey(alerts'[j].timestamp)) = 0
       /\ habits' # habits => alerts' = alerts]_vars

\* C13 witness: the alert of a deleted habit is still on screen, the alert of
\* another habit was dismissed, that habit still holds the reminder, and a
\* tick inside the window has just run without emitting it again.
C13_Witness ==
    /\ ~effectPending
    /\ upcomingAlerts = <<>>
    /\ Len(alerts) = 1
    /\ alerts[1].habitId \notin HabitIds(habits)
    /\ nowSecondsOf(now) = 23429
    /\ Holds("habit-2", T0630)
    /\ Emitted("habit-2", T0630, getDateKey(now)) = 1

\* C14: handleDeleteHabit(id) leaves exactly the habits with another id, in
\* their order, so it changes nothing when the id is absent; and the selected
\* id is always null or the id of a habit in the store.
C14_DeleteAndSelection ==
    /\ [](selectedHabitId = NULL \/ selectedHabitId \in HabitIds(habits))
    /\ [][\A id \in StoreIds :
             handleDeleteHabit(id, now') =>
                 /\ IsFiltered(habits, habits', LAMBDA h : h.id # id)
                 /\ id \notin HabitIds(habits')
                 /\ id \notin HabitIds(habits) => habits' = habits]_vars

\* C14 witness: a habit was added, which selected it, and then the first
\* seed habit, which was not the selected one, was deleted.
C14_Witness ==
    /\ ~effectPending
    /\ selectedHabitId = "uuid-1"
    /\ Len(habits) = 2
    /\ habits[1].id = "uuid-1"
    /\ habits[2].id = "habit-2"

\* a text HH:MM with HH in 00..23 and MM in 00..59, read without the code
IsHHMM(time) ==
    /\ Len(time) = 5
    /\ time[3] = ":"
    /\ \A i \in {1, 2, 4, 5} : time[i] \in Digits
    /\ 10 * DigitValue(time[1]) + DigitValue(time[2]) <= 23
    /\ 10 * DigitValue(time[4]) + DigitValue(time[5]) <= 59

TargetOf(time) ==
    (10 * DigitValue(time[1]) + DigitValue(time[2])) * 3600
    + (10 * DigitValue(time[4]) + DigitValue(time[5])) * 60

SecondOfDay(t) == (t + tzOffset) % SECONDS_PER_DAY

\* C15: a tick emits an alert for a pair (habit, time) exactly when the time
\* is a valid HH:MM, the second of the day of the tick is within 30 of
\* HH*3600 + MM*60, and the key is not in the cache after the rollover; the
\* keys of the alerts emitted are added to the cache, and the tick appends
\* those alerts and nothing else.
C15_TickEmitsIff ==
    [][(RunEffects \/ IntervalTick(now')) =>
          LET date == LocalDay(now')
              kept == IF reminderCacheRef.date = date
                      THEN reminderCacheRef.keys ELSE {}
              held == UNION {{<<habits[i].id, habits[i].reminders[j], date>>
                                : j \in 1..Len(habits[i].reminders)}
                                : i \in 1..Len(habits)}
              expected == {k \in held :
                              /\ IsHHMM(k[2])
                              /\ Abs(SecondOfDay(now') - TargetOf(k[2])) <= WINDOW
                              /\ k \notin kept}
              built == {<<upcomingAlerts'[i].habitId, upcomingAlerts'[i].time,
                          LocalDay(upcomingAlerts'[i].timestamp)>>
                          : i \in 1..Len(upcomingAlerts')}
          IN  /\ built = expected
              /\ Len(upcomingAlerts') = Cardinality(expected)
              /\ reminderCacheRef'.keys = kept \cup expected
              /\ alerts' = alerts \o upcomingAlerts']_vars

\* the time between a second of the day and a time of day, around the clock
ClockDistance(sec, target) ==
    IF Abs(sec - target) <= SECONDS_PER_DAY - Abs(sec - target)
    THEN Abs(sec - target)
    ELSE SECONDS_PER_DAY - Abs(sec - target)

\* C16: the window is symmetric around the scheduled time: after a tick
\* whose moment lies within 30 seconds before or after the time of day of a
\* valid reminder, midnight included, the reminder has been alerted for the
\* date of the tick.
C16_SymmetricWindow ==
    ~effectPending =>
        \A i \in 1..Len(habits) : \A time \in Range(habits[i].reminders) :
            (IsHHMM(time)
             /\ ClockDistance(SecondOfDay(now), TargetOf(time)) <= WINDOW)
                => Emitted(habits[i].id, time, LocalDay(now)) = 1

\* C17: an entry that is not a valid HH:MM never gets an alert or a cache
\* entry, and after a tick every valid reminder that is due, of the same
\* habit and of every other, has been alerted.
C17_InvalidEntriesSkipped ==
    /\ \A k \in DOMAIN emitted \cup reminderCacheRef.keys : IsHHMM(k[2])
    /\ \A i \in 1..Len(alerts) : IsHHMM(alerts[i].time)
    /\ ~effectPending =>
          \A i \in 1..Len(habits) : \A time \in Range(habits[i].reminders) :
              (IsHHMM(time) /\ Abs(SecondOfDay(now) - TargetOf(time)) <= WINDOW)
                  => Emitted(habits[i].id, time, LocalDay(now)) = 1

\* all of a habit but the field named
Besides(h, field) ==
    [f \in DOMAIN h \ {field} |-> h[f]]

\* only the field named, and only of the habits with the id, may differ
OnlyFieldOf(id, field) ==
    /\ Len(habits') = Len(habits)
    /\ \A i \in 1..Len(habits) :
          /\ Besides(habits'[i], field) = Besides(habits[i], field)
          /\ habits[i].id # id => habits'[i] = habits[i]
    /\ id \notin HabitIds(habits) => habits' = habits

\* C18: handleToggleCompletion(habitId, dateId) flips the membership of
\* dateId, and of no other date, in the completions of the habit with that
\* id, and changes nothing else: the habits and their order, every id, name,
\* goal and list of reminders, the completions of the other habits, and the
\* whole collection when the id is absent.
C18_ToggleFrame ==
    [][\A id \in StoreIds, d \in StoreDates :
          handleToggleCompletion(id, d, now') =>
              /\ OnlyFieldOf(id, "completions")
              /\ \A i \in 1..Len(habits) :
                    habits[i].id = id =>
                        LET before == Range(habits[i].completions)
                            after == Range(habits'[i].completions)
                        IN  /\ after \ {d} = before \ {d}
                            /\ d \in after <=> d \notin before
                            /\ Len(habits'[i].completions) = Cardinality(after)
              /\ alerts' = alerts
              /\ selectedHabitId' = selectedHabitId]_vars

\* C18 witness: today was taken out of the completions of the first habit
\* and the day before was put in; the second habit was never touched.
C18_Witness ==
    /\ ~effectPending
    /\ updates = 2
    /\ Some("habit-1", LAMBDA h : h.completions = <<getDateKey(now) - 1>>)
    /\ Some("habit-2", LAMBDA h : h.completions = <<>>)

\* C19: handleAddHabit with a name that is not blank puts one new habit in
\* front of the habits there were: its id is none of theirs, its completions
\* are empty, its reminders are the time of the form or none, its goal is
\* the goal of the form, or 1 when that is below 1; so every habit of the
\* store has a goal of at least 1.
C19_AddHabit ==
    /\ [](\A i \in 1..Len(habits) : habits[i].goalPerWeek >= 1)
    /\ [][(handleAddHabit(now') /\ ~Blank(name)) =>
             /\ Len(habits') = Len(habits) + 1
             /\ Tail(habits') = habits
             /\ habits'[1].id \notin HabitIds(habits)
             /\ habits'[1].completions = <<>>
             /\ habits'[1].reminders
                   = (IF reminderTime = <<>> THEN <<>> ELSE <<reminderTime>>)
             /\ habits'[1].goalPerWeek
                   = (IF goalPerWeek < 1 THEN 1 ELSE goalPerWeek)
             /\ ~Blank(habits'[1].name)]_vars

\* C19 witness: two habits were added, the later one with a reminder time,
\* the earlier one without, from goals of the form below and above 1.
C19_Witness ==
    /\ ~effectPending
    /\ Len(habits) = 4
    /\ habits[1].id = "uuid-2"
    /\ habits[1].reminders = <<T2400>>
    /\ habits[1].goalPerWeek = 1
    /\ habits[2].id = "uuid-1"
    /\ habits[2].reminders = <<>>
    /\ habits[2].goalPerWeek = 8

\* C20: handleAddReminder does nothing for an empty time and otherwise makes
\* the reminders of the habit the set they were plus the time, so adding a
\* time that is there changes nothing; handleRemoveReminder takes the time
\* out when it is there and changes nothing otherwise; both change only the
\* reminders of the habit with the id, and nothing when the id is absent.
C20_AddRemoveReminder ==
    [][\A id \in StoreIds, time \in StoreTimes \cup {T0630} :
          /\ handleAddReminder(id, time, now') =>
                IF time = <<>>
                THEN habits' = habits /\ ~effectPending'
                ELSE /\ OnlyFieldOf(id, "reminders")
                     /\ \A i \in 1..Len(habits) :
                           habits[i].id = id =>
                               /\ Range(habits'[i].reminders)
                                     = Range(habits[i].reminders) \cup {time}
                               /\ time \in Range(habits[i].reminders)
                                     => habits'[i] = habits[i]
          /\ handleRemoveReminder(id, time, now') =>
                /\ OnlyFieldOf(id, "reminders")
                /\ \A i \in 1..Len(habits) :
                      habits[i].id = id =>
                          /\ IsFiltered(habits[i].reminders, habits'[i].reminders,
                                        LAMBDA rem : rem # time)
                          /\ time \notin Range(habits[i].reminders)
                                => habits'[i] = habits[i]]_vars

\* C20 witness: the first habit got a second reminder and lost the one it
\* had; the second habit still has its two.
C20_Witness ==
    /\ ~effectPending
    /\ updates = 2
    /\ Some("habit-1", LAMBDA h : h.reminders = <<T0000>>)
    /\ Some("habit-2", LAMBDA h : h.reminders = <<T1200, T2000>>)

\* the minute of the day a time H:MM or HH:MM names, read without the code
ClockMinutes(time) ==
    IF Len(time) = 5
    THEN (10 * DigitValue(time[1]) + DigitValue(time[2])) * 60
         + 10 * DigitValue(time[4]) + DigitValue(time[5])
    ELSE DigitValue(time[1]) * 60
         + 10 * DigitValue(time[3]) + DigitValue(time[4])

Min(S) == CHOOSE x \in S : \A y \in S : x <= y

\* C21: getNextReminderForHabit returns null when the habit has no reminders;
\* otherwise it returns a reminder of the habit: the earliest one strictly
\* after the current hour and minute, or the earliest of the day when none
\* is later.
C21_NextReminder ==
    \A i \in 1..Len(habits) :
        LET result == getNextReminderForHabit(habits[i], now)
            times == Range(habits[i].reminders)
            nowMinutes == SecondOfDay(now) \div 60
            later == {time \in times : ClockMinutes(time) > nowMinutes}
        IN  IF times = {} THEN result = Null
            ELSE /\ result.type = "string"
                 /\ result.value \in times
                 /\ ClockMinutes(result.value) =
                       (IF later # {}
                        THEN Min({ClockMinutes(time) : time \in later})
                        ELSE Min({ClockMinutes(time) : time \in times}))

\* C22: after a tick the date of the cache is the date of the tick, and every
\* key of the cache carries the date of the cache; a step that is not a tick
\* (a store handler, a dismissal) leaves the cache as it is; and a tick on
\* the date of the cache loses none of its keys.
C22_CacheDateAndKeys ==
    /\ [](\A k \in reminderCacheRef.keys : k[3] = reminderCacheRef.date)
    /\ [][IF RunEffects \/ IntervalTick(now')
          THEN /\ reminderCacheRef'.date = LocalDay(now')
               /\ reminderCacheRef.date = LocalDay(now')
                     => reminderCacheRef.keys \subseteq reminderCacheRef'.keys
          ELSE reminderCacheRef' = reminderCacheRef]_vars

\* C22 witness: on the second day, after a store update and a tick, the
\* cache holds the key of the second day only, the key of the first day
\* having been emitted and dropped at the rollover.
C22_Witness ==
    /\ ~effectPending
    /\ updates >= 1
    /\ LocalDay(now) = 1
    /\ reminderCacheRef = [date |-> 1, keys |-> {CacheKey("habit-1", T0630, 1)}]
    /\ Emitted("habit-1", T0630, 0) = 1

====
